---- MODULE Spec2Model ----
(***************************************************************************)
(* A model of the n8n MCP bridge: the tool registry (app/n8n_tools.py),    *)
(* the run tracker (app/tracking.py), the remote client's call signatures  *)
(* and error normalisation (app/n8n_client.py) and the JSON formatting     *)
(* helpers (app/utils.py).                                                 *)
(*                                                                         *)
(* JSON values are tagged records [t, v]:                                  *)
(*   null  [t |-> "null", v |-> 0]     bool [t |-> "bool", v |-> BOOLEAN]  *)
(*   int   [t |-> "int",  v |-> Int]   str  [t |-> "str",  v |-> STRING]   *)
(*   list  [t |-> "list", v |-> Seq]   dict [t |-> "dict", v |-> function] *)
(***************************************************************************)
EXTENDS Integers, Sequences, FiniteSets, TLC

VARIABLES
    allowlist,    \* N8NToolRegistry._allowlist: None or a set of strings
    entries,      \* RunTracker._entries: the deque, head first
    lock,         \* RunTracker._lock: 0 when free, else the holder
    clock,        \* datetime.now(): one tick per record constructed
    calls,        \* per caller: the coroutine of its current call (seen is
                  \* history: the appends completed when it copied the deque)
    started,      \* number of calls started so far
    added,        \* history: every record appended, newest first
    fin,          \* function harness: the value handed to a pure function
    fout,         \* function harness: what the function returned
    fkind         \* function harness: which function ran ("none" before)

vars == <<allowlist, entries, lock, clock, calls, started, added, fin, fout, fkind>>

----------------------------------------------------------------------------
(* Bounds of the model *)

\* longest array inside an upstream list response
MaxItems == 2
\* RunTracker(max_entries): 200 by default, kept small here
max_entries == 2
\* tool calls started in one run
MaxCalls == 2
\* longest N8N_WORKFLOW_ALLOWLIST text (characters)
MaxText == 4

----------------------------------------------------------------------------
(* JSON values and the Python operations the code applies to them *)

JNull == [t |-> "null", v |-> 0]
JBool(b) == [t |-> "bool", v |-> b]
JInt(n) == [t |-> "int", v |-> n]
JStr(s) == [t |-> "str", v |-> s]
JList(s) == [t |-> "list", v |-> s]
JDict(f) == [t |-> "dict", v |-> f]

EmptyMap == [k \in {} |-> JNull]

\* isinstance(x, dict), isinstance(x, list)
IsDict(x) == x.t = "dict"
IsList(x) == x.t = "list"
\* isinstance(x, int): bool is a subclass of int in Python
IsInstanceInt(x) == x.t \in {"int", "bool"}

\* bool(x)
Truthy(x) ==
    CASE x.t = "null" -> FALSE
      [] x.t = "bool" -> x.v
      [] x.t = "int" -> x.v # 0
      [] x.t = "str" -> x.v # ""
      [] x.t = "list" -> Len(x.v) > 0
      [] x.t = "dict" -> DOMAIN x.v # {}

\* a or b
Or(a, b) == IF Truthy(a) THEN a ELSE b

\* d.get(k) on a dict
Get(d, k) == IF k \in DOMAIN d.v THEN d.v[k] ELSE JNull

\* decimal text of the small naturals the model meets
IntText(n) ==
    CASE n = 0 -> "0" [] n = 1 -> "1" [] n = 2 -> "2" [] n = 3 -> "3"
      [] n = 4 -> "4" [] n = 5 -> "5" [] n = 6 -> "6" [] n = 7 -> "7"
      [] n = 8 -> "8" [] n = 9 -> "9"
      [] OTHER -> "<int>"

\* str(x) for the scalars that occur as identifiers
PyStr(x) ==
    CASE x.t = "null" -> "None"
      [] x.t = "bool" -> (IF x.v THEN "True" ELSE "False")
      [] x.t = "int" -> IntText(x.v)
      [] x.t = "str" -> x.v
      [] OTHER -> "<object>"

----------------------------------------------------------------------------
(* The allowlist: None, or a set of workflow identifiers *)

NoneAllowlist == [isNone |-> TRUE, items |-> {}]
SetAllowlist(S) == [isNone |-> FALSE, items |-> S]

\* a slip: "if self._allowlist" taken as always true
AllowlistAlwaysRestricts == TRUE

\* "if self._allowlist": None and the empty set are both falsy
AllowlistTruthy == ~allowlist.isNone /\ allowlist.items # {}

\* the allowlists main.py can hand to the registry (settings.py never yields
\* an empty set)
\* str.strip() removes these from both ends
IsSpace(ch) == ch \in {" ", "\t", "\n", "\r"}

RECURSIVE LStrip(_)
LStrip(s) ==
    IF Len(s) > 0 /\ IsSpace(SubSeq(s, 1, 1)) THEN LStrip(SubSeq(s, 2, Len(s))) ELSE s

RECURSIVE RStrip(_)
RStrip(s) ==
    IF Len(s) > 0 /\ IsSpace(SubSeq(s, Len(s), Len(s)))
    THEN RStrip(SubSeq(s, 1, Len(s) - 1)) ELSE s

\* item.strip()
Strip(s) == RStrip(LStrip(s))

\* the set of the segments of s.split(","): the text before the first comma
\* (all of s when there is none) and the segments of the rest
RECURSIVE SplitComma(_, _)
SplitComma(s, from) ==
    LET commas == {i \in from..Len(s) : SubSeq(s, i, i) = ","}
    IN  IF commas = {} THEN {SubSeq(s, from, Len(s))}
        ELSE LET first == CHOOSE i \in commas : \A k \in commas : i <= k
             IN  {SubSeq(s, from, first - 1)} \cup SplitComma(s, first + 1)

\* a Python set handed to the validator
PySet(S) == [t |-> "set", v |-> S]

\* a slip: the empty result kept as a set
parse_allowlist_keep_empty(value) ==
    IF value.t = "null" THEN NoneAllowlist
    ELSE IF value.t = "set" THEN SetAllowlist(value.v)
    ELSE SetAllowlist({Strip(item) : item \in SplitComma(PyStr(value), 1)} \ {""})

\* Settings.parse_allowlist(value), the "before" validator of
\* n8n_workflow_allowlist
parse_allowlist(value) ==
    IF value.t = "null" THEN NoneAllowlist
    ELSE IF value.t = "set"
    THEN IF value.v # {} THEN SetAllowlist(value.v) ELSE NoneAllowlist
    ELSE LET items == {Strip(item) : item \in SplitComma(PyStr(value), 1)} \ {""}
         IN  IF items # {} THEN SetAllowlist(items) ELSE NoneAllowlist

AllowlistChoices == {NoneAllowlist, SetAllowlist({"1", "2"})}

----------------------------------------------------------------------------
(* Allowlist filtering of list responses: N8NToolRegistry._filter_* *)

\* _is_allowed_workflow(item)
is_allowed_workflow(item) ==
    IF allowlist.isNone THEN TRUE
    ELSE LET workflow_id ==
                 IF IsDict(item)
                 THEN Or(Or(Get(item, "id"), Get(item, "workflowId")), Get(item, "_id"))
                 ELSE JNull
         IN  IF workflow_id = JNull THEN FALSE
             ELSE PyStr(workflow_id) \in allowlist.items

\* _is_allowed_execution(item)
is_allowed_execution(item) ==
    IF allowlist.isNone THEN TRUE
    ELSE IF ~IsDict(item) THEN FALSE
    ELSE LET workflow_id == Or(Get(item, "workflowId"), Get(item, "workflow_id"))
         IN  IF workflow_id = JNull THEN FALSE
             ELSE PyStr(workflow_id) \in allowlist.items

\* payload[key] = value on a dict
SetItem(d, key, value) ==
    JDict([k \in DOMAIN d.v \cup {key} |-> IF k = key THEN value ELSE d.v[k]])

\* one round of the loop of _update_counts
update_count(payload, key, length) ==
    IF IsInstanceInt(Get(payload, key)) THEN SetItem(payload, key, JInt(length))
    ELSE payload

\* a slip: only "count" is rewritten
update_counts_only_count(payload, length) == update_count(payload, "count", length)

\* _update_counts(payload, length): for key in ("count", "total", "totalCount")
update_counts(payload, length) ==
    update_count(update_count(update_count(payload, "count", length),
                              "total", length),
                 "totalCount", length)

\* one round of "for key in (...)" in _filter_workflows
filter_workflows_key(cloned, key) ==
    LET value == Get(cloned, key)
    IN  IF IsList(value)
        THEN LET filtered_items == SelectSeq(value.v, is_allowed_workflow)
             IN  update_counts(SetItem(cloned, key, JList(filtered_items)),
                               Len(filtered_items))
        ELSE cloned

\* _filter_workflows(payload)
filter_workflows(payload) ==
    IF ~AllowlistTruthy THEN payload
    ELSE IF IsList(payload) THEN JList(SelectSeq(payload.v, is_allowed_workflow))
    ELSE IF IsDict(payload)
         THEN filter_workflows_key(
                  filter_workflows_key(
                      filter_workflows_key(payload, "data"), "workflows"), "items")
    ELSE payload

\* one round of "for key in (...)" in _filter_executions
filter_executions_key(cloned, key) ==
    LET value == Get(cloned, key)
    IN  IF IsList(value)
        THEN LET filtered_items == SelectSeq(value.v, is_allowed_execution)
             IN  update_counts(SetItem(cloned, key, JList(filtered_items)),
                               Len(filtered_items))
        ELSE cloned

\* _filter_executions(payload)
filter_executions(payload) ==
    IF ~AllowlistTruthy THEN payload
    ELSE IF IsList(payload) THEN JList(SelectSeq(payload.v, is_allowed_execution))
    ELSE IF IsDict(payload)
         THEN filter_executions_key(
                  filter_executions_key(
                      filter_executions_key(payload, "data"), "executions"), "items")
    ELSE payload

----------------------------------------------------------------------------
(* Upstream list responses the filters are exercised on *)

\* items of an upstream array: workflow objects, execution objects, objects
\* with falsy or conflicting identifiers, an object without identifier, and
\* an item that is no object
ResponseItems ==
    { JDict([id |-> JStr("1")]),
      JDict([id |-> JStr("3")]),
      JDict([id |-> JInt(1)]),
      JDict("_id" :> JStr("1")),
      JDict([id |-> JInt(0), workflowId |-> JStr("1")]),
      JDict([id |-> JStr("3"), workflowId |-> JStr("1")]),
      JDict([workflowId |-> JStr("3"), workflow_id |-> JStr("1")]),
      JDict([workflowId |-> JStr(""), workflow_id |-> JStr("1")]),
      JDict([workflow_id |-> JStr("2")]),
      JDict([name |-> JStr("w")]),
      JStr("1") }

\* the count fields an upstream object carries beside its array
CountMaps ==
    { EmptyMap,
      [count |-> JInt(2)],
      [count |-> JInt(2), total |-> JInt(2), totalCount |-> JInt(2)],
      [count |-> JStr("2"), total |-> JInt(2)],
      [total |-> JBool(TRUE), nextCursor |-> JNull] }

\* a second array of the same object
SecondArrays ==
    { <<>>, <<JDict([id |-> JStr("1")])>>, <<JDict([id |-> JStr("3")])>> }

\* upstream responses before their (first) array is filled: a bare array, an
\* object with one array under data or under workflows/executions, an object
\* with arrays under data and items, an object without arrays, a scalar
ResponseSkeletons ==
    {JList(<<>>)}
    \cup {JDict(("data" :> JList(<<>>)) @@ cm) : cm \in CountMaps}
    \cup {JDict((middle :> JList(<<>>)) @@ [count |-> JInt(2)]) :
              middle \in {"workflows", "executions"}}
    \cup {JDict(("data" :> JList(<<>>)) @@ ("items" :> JList(s))
                @@ [count |-> JInt(2), total |-> JInt(2)]) : s \in SecondArrays}
    \cup {JDict([data |-> JDict([id |-> JStr("1")]), count |-> JInt(1)]),
          JStr("ok")}

\* the key of the array a skeleton is filled at ("" for a bare array, "-"
\* when there is none)
FillKey(payload) ==
    IF IsList(payload) THEN ""
    ELSE IF ~IsDict(payload) THEN "-"
    ELSE IF IsList(Get(payload, "data")) THEN "data"
    ELSE IF IsList(Get(payload, "workflows")) THEN "workflows"
    ELSE IF IsList(Get(payload, "executions")) THEN "executions"
    ELSE "-"

FilledLen(payload) ==
    IF FillKey(payload) = "" THEN Len(payload.v)
    ELSE IF FillKey(payload) = "-" THEN MaxItems
    ELSE Len(payload.v[FillKey(payload)].v)

\* the response with one more item in its array
WithItem(payload, item) ==
    IF FillKey(payload) = "" THEN JList(Append(payload.v, item))
    ELSE JDict([payload.v EXCEPT ![FillKey(payload)] = JList(Append(@.v, item))])

----------------------------------------------------------------------------
(* utils.py: format_json and as_mcp_text *)

\* every object key the model meets, in the order sort_keys=True puts them
\* (code point order)
KeyOrder ==
    << "_id", "active", "bogus", "count", "cursor", "data", "error",
       "executionId", "execution_id", "executions", "id", "items", "limit",
       "message", "name", "nextCursor", "offset", "payload", "startedAt",
       "started_at",
       "total", "totalCount", "track", "workflowId", "workflow_id",
       "workflows", "x" >>

RECURSIVE Indent(_)
Indent(n) == IF n = 0 THEN "" ELSE "  " \o Indent(n - 1)

\* json.dumps(x, indent=2, sort_keys=True) at nesting depth ind
RECURSIVE Dumps(_, _)
RECURSIVE DumpsItems(_, _)
RECURSIVE DumpsMembers(_, _, _)

DumpsItems(items, ind) ==
    IF Len(items) = 1 THEN Indent(ind) \o Dumps(items[1], ind)
    ELSE Indent(ind) \o Dumps(items[1], ind) \o ",\n" \o DumpsItems(Tail(items), ind)

DumpsMembers(f, keys, ind) ==
    LET member == Indent(ind) \o "\"" \o keys[1] \o "\": " \o Dumps(f[keys[1]], ind)
    IN  IF Len(keys) = 1 THEN member
        ELSE member \o ",\n" \o DumpsMembers(f, Tail(keys), ind)

Dumps(x, ind) ==
    CASE x.t = "null" -> "null"
      [] x.t = "bool" -> (IF x.v THEN "true" ELSE "false")
      [] x.t = "int" -> IntText(x.v)
      [] x.t = "str" -> "\"" \o x.v \o "\""
      [] x.t = "list" ->
            IF Len(x.v) = 0 THEN "[]"
            ELSE "[\n" \o DumpsItems(x.v, ind + 1) \o "\n" \o Indent(ind) \o "]"
      [] x.t = "dict" ->
            LET keys == SelectSeq(KeyOrder, LAMBDA k : k \in DOMAIN x.v)
            IN  IF Len(keys) = 0 THEN "{}"
                ELSE "{\n" \o DumpsMembers(x.v, keys, ind + 1) \o "\n" \o Indent(ind) \o "}"

\* a slip: compact output instead of the pretty-printed one
format_json_compact(data) == IF IsDict(data) \/ IsList(data) THEN "{}" ELSE Dumps(data, 0)

\* format_json(data): every value the model formats is JSON-serialisable, so
\* the except branch (str(data)) is never taken
format_json(data) == Dumps(data, 0)

\* as_mcp_text(content): the MCPResult with one text item
as_mcp_text(content) == [kind |-> "result", text |-> content]

\* an exception leaving call_tool
Raised(kind, message) == [kind |-> kind, text |-> message]

----------------------------------------------------------------------------
(* n8n_client.py: call signatures, _request and _parse_error *)

\* keyword-only parameters of N8NClient.list_workflows / list_executions
list_workflows_params == {"limit", "offset", "active"}
list_executions_params == {"limit", "offset", "workflow_id"}

\* keywords the registry passes in _handle_list_workflows/_handle_list_executions
list_workflows_keywords == {"limit", "cursor", "active"}
list_executions_keywords == {"limit", "cursor", "workflow_id"}

\* a slip-free call site would pass exactly the parameters
CallBindsAlways(keywords, params) == TRUE

\* Python binds a call to keyword-only parameters without defaults iff the
\* keywords passed are exactly the parameters; otherwise it raises TypeError
\* before the coroutine is created
CallBinds(keywords, params) == keywords = params

StatusText(n) ==
    CASE n = 200 -> "200" [] n = 400 -> "400" [] n = 401 -> "401"
      [] n = 403 -> "403" [] n = 404 -> "404" [] n = 500 -> "500"
      [] OTHER -> IntText(n)

\* what the upstream does with one request: a transport failure, or an HTTP
\* response with a status and a body that is JSON (body) or not (text)
NetworkFailure == [net |-> TRUE, status |-> 0, json |-> FALSE, body |-> JNull, text |-> "timeout"]
HttpJson(status, body) == [net |-> FALSE, status |-> status, json |-> TRUE, body |-> body, text |-> ""]
HttpText(status, text) == [net |-> FALSE, status |-> status, json |-> FALSE, body |-> JNull, text |-> text]

Returned(value) == [ok |-> TRUE, value |-> value, exc |-> "", status_code |-> 0, message |-> JNull]
ClientError(status_code, message) ==
    [ok |-> FALSE, value |-> JNull, exc |-> "N8NClientError", status_code |-> status_code,
     message |-> message]
OtherError(exc) ==
    [ok |-> FALSE, value |-> JNull, exc |-> exc, status_code |-> 0, message |-> JNull]

\* N8NClient._parse_error(response) followed by the raise in _request;
\* payload.get on a body that is not an object raises AttributeError
parse_error(reply) ==
    LET default_message == JStr("n8n API responded with status " \o StatusText(reply.status))
    IN  IF ~reply.json THEN ClientError(reply.status, default_message)
        ELSE IF ~IsDict(reply.body) THEN OtherError("AttributeError")
        ELSE ClientError(reply.status,
                         Or(Or(Get(reply.body, "message"), Get(reply.body, "error")),
                            default_message))

\* N8NClient._request: the outcome of the one HTTP exchange
request(reply) ==
    IF reply.net THEN ClientError(0, JStr("Unable to reach n8n API"))
    ELSE IF reply.status >= 400 THEN parse_error(reply)
    ELSE IF reply.json THEN Returned(reply.body)
    ELSE ClientError(reply.status, JStr("Invalid JSON from n8n"))

----------------------------------------------------------------------------
(* n8n_tools.py: argument models, identifier extraction, error messages *)

TOOL_NAMES ==
    {"n8n_list_workflows", "n8n_get_workflow", "n8n_run_workflow",
     "n8n_list_executions", "n8n_get_execution", "darcy_tracking_list"}

Has(arguments, key) == key \in DOMAIN arguments.v

\* an optional field is absent or carries one of the types
FieldIs(arguments, key, types) == Has(arguments, key) => arguments.v[key].t \in types

\* limit: int = Field(default, ge=1, le=200)
LimitOk(arguments) ==
    Has(arguments, "limit") =>
        /\ arguments.v["limit"].t = "int"
        /\ arguments.v["limit"].v >= 1
        /\ arguments.v["limit"].v <= 200

\* pydantic validation of the argument models (extra = "forbid").  The
\* arguments the model supplies carry either the declared type or null, so
\* pydantic's lax coercions between scalar types do not come into play.
ValidListWorkflowsArgs(arguments) ==
    /\ DOMAIN arguments.v \subseteq {"limit", "cursor", "active"}
    /\ LimitOk(arguments)
    /\ FieldIs(arguments, "cursor", {"str", "null"})
    /\ FieldIs(arguments, "active", {"bool", "null"})

ValidGetWorkflowArgs(arguments) ==
    /\ DOMAIN arguments.v \subseteq {"workflow_id"}
    /\ Has(arguments, "workflow_id")
    /\ FieldIs(arguments, "workflow_id", {"str"})

ValidRunWorkflowArgs(arguments) ==
    /\ DOMAIN arguments.v \subseteq {"workflow_id", "payload", "track"}
    /\ Has(arguments, "workflow_id")
    /\ FieldIs(arguments, "workflow_id", {"str"})
    /\ FieldIs(arguments, "payload", {"dict"})
    /\ FieldIs(arguments, "track", {"bool"})

ValidListExecutionsArgs(arguments) ==
    /\ DOMAIN arguments.v \subseteq {"limit", "cursor", "workflow_id"}
    /\ LimitOk(arguments)
    /\ FieldIs(arguments, "cursor", {"str", "null"})
    /\ FieldIs(arguments, "workflow_id", {"str", "null"})

ValidGetExecutionArgs(arguments) ==
    /\ DOMAIN arguments.v \subseteq {"execution_id"}
    /\ Has(arguments, "execution_id")
    /\ FieldIs(arguments, "execution_id", {"str"})

ValidEmptyArgs(arguments) == DOMAIN arguments.v = {}

\* the parsed fields a handler reads, with the model's defaults
ArgWorkflowId(arguments) == Get(arguments, "workflow_id")
ArgPayload(arguments) ==
    IF Has(arguments, "payload") THEN arguments.v["payload"] ELSE JDict(EmptyMap)
\* a slip: the track flag ignored
ArgTrackAlways(arguments) == TRUE

\* args.track (default True)
ArgTrack(arguments) ==
    IF Has(arguments, "track") THEN arguments.v["track"].v ELSE TRUE

\* a slip: the membership test dropped
ensure_workflow_allowed_unchecked(workflow_id) == TRUE

\* _ensure_workflow_allowed(workflow_id): TRUE when it returns, FALSE when
\* it raises ToolExecutionError
ensure_workflow_allowed(workflow_id) ==
    ~(AllowlistTruthy /\ workflow_id \notin allowlist.items)

\* the guard of _handle_list_executions: TRUE when the call goes on
list_executions_allowed(workflow_id) ==
    ~(AllowlistTruthy /\ Truthy(workflow_id) /\ workflow_id.v \notin allowlist.items)

\* str(value) as an Optional[str]
StrOf(value) == JStr(PyStr(value))

\* a slip: the nested data object consulted before the top level
extract_execution_id_nested_first(payload) ==
    IF ~IsDict(payload) THEN JNull
    ELSE LET data == Get(payload, "data")
         IN  IF IsDict(data) /\ Get(data, "executionId") # JNull
             THEN StrOf(Get(data, "executionId"))
             ELSE IF IsDict(data) /\ Get(data, "id") # JNull THEN StrOf(Get(data, "id"))
             ELSE IF Get(payload, "executionId") # JNull THEN StrOf(Get(payload, "executionId"))
             ELSE IF Get(payload, "execution_id") # JNull THEN StrOf(Get(payload, "execution_id"))
             ELSE IF Get(payload, "id") # JNull THEN StrOf(Get(payload, "id"))
             ELSE JNull

\* _extract_execution_id(payload): a str or None
extract_execution_id(payload) ==
    IF ~IsDict(payload) THEN JNull
    ELSE IF Get(payload, "executionId") # JNull THEN StrOf(Get(payload, "executionId"))
    ELSE IF Get(payload, "execution_id") # JNull THEN StrOf(Get(payload, "execution_id"))
    ELSE IF Get(payload, "id") # JNull THEN StrOf(Get(payload, "id"))
    ELSE LET data == Get(payload, "data")
         IN  IF ~IsDict(data) THEN JNull
             ELSE IF Get(data, "executionId") # JNull THEN StrOf(Get(data, "executionId"))
             ELSE IF Get(data, "id") # JNull THEN StrOf(Get(data, "id"))
             ELSE JNull

\* _extract_workflow_id_from_execution(payload): a str or None
extract_workflow_id_from_execution(payload) ==
    IF ~IsDict(payload) THEN JNull
    ELSE LET value == Or(Get(payload, "workflowId"), Get(payload, "workflow_id"))
             data == Get(payload, "data")
         IN  IF value # JNull THEN StrOf(value)
             ELSE IF ~IsDict(data) THEN JNull
             ELSE LET inner_value == Or(Get(data, "workflowId"), Get(data, "workflow_id"))
                  IN  IF inner_value # JNull THEN StrOf(inner_value) ELSE JNull

\* the test after the fetch in _handle_get_execution: TRUE when the body is
\* returned, FALSE when ToolExecutionError is raised
get_execution_allowed(workflow_id) ==
    ~(AllowlistTruthy /\ Truthy(workflow_id) /\ workflow_id.v \notin allowlist.items)

LowerChar(ch) ==
    CASE ch = "A" -> "a" [] ch = "B" -> "b" [] ch = "C" -> "c" [] ch = "D" -> "d"
      [] ch = "E" -> "e" [] ch = "F" -> "f" [] ch = "G" -> "g" [] ch = "H" -> "h"
      [] ch = "I" -> "i" [] ch = "J" -> "j" [] ch = "K" -> "k" [] ch = "L" -> "l"
      [] ch = "M" -> "m" [] ch = "N" -> "n" [] ch = "O" -> "o" [] ch = "P" -> "p"
      [] ch = "Q" -> "q" [] ch = "R" -> "r" [] ch = "S" -> "s" [] ch = "T" -> "t"
      [] ch = "U" -> "u" [] ch = "V" -> "v" [] ch = "W" -> "w" [] ch = "X" -> "x"
      [] ch = "Y" -> "y" [] ch = "Z" -> "z" [] OTHER -> ch

\* str.lower()
RECURSIVE Lower(_)
Lower(s) ==
    IF Len(s) = 0 THEN ""
    ELSE LowerChar(SubSeq(s, 1, 1)) \o Lower(SubSeq(s, 2, Len(s)))

\* sub in s
Contains(s, sub) ==
    \E i \in 1..(Len(s) - Len(sub) + 1) : SubSeq(s, i, i + Len(sub) - 1) = sub

\* a slip: the message searched without lower()
friendly_error_message_case_sensitive(error, tool) ==
    LET base == PyStr(error.message)
    IN  IF error.status_code = 400
        THEN IF Contains(base, "trigger")
             THEN "n8n rejected the run: the workflow is missing a trigger node."
             ELSE "n8n returned a bad request for " \o tool \o ": " \o base
        ELSE IF error.status_code = 401 THEN "n8n API rejected the credentials"
        ELSE IF error.status_code = 403 THEN "n8n API denied access to this resource"
        ELSE IF error.status_code = 404 THEN "Requested resource was not found in n8n"
        ELSE IF error.status_code = 0 THEN "Unable to reach n8n API"
        ELSE "n8n error " \o StatusText(error.status_code) \o ": " \o base

\* _friendly_error_message(error, tool=tool)
friendly_error_message(error, tool) ==
    LET base == PyStr(error.message)
    IN  IF error.status_code = 400
        THEN IF Contains(Lower(base), "trigger")
             THEN "n8n rejected the run: the workflow is missing a trigger node."
             ELSE "n8n returned a bad request for " \o tool \o ": " \o base
        ELSE IF error.status_code = 401 THEN "n8n API rejected the credentials"
        ELSE IF error.status_code = 403 THEN "n8n API denied access to this resource"
        ELSE IF error.status_code = 404 THEN "Requested resource was not found in n8n"
        ELSE IF error.status_code = 0 THEN "Unable to reach n8n API"
        ELSE "n8n error " \o StatusText(error.status_code) \o ": " \o base

\* a slip: call_tool without its except clause
ClientFailureRaw(res, tool) == Raised(res.exc, PyStr(res.message))

\* how a failed client call leaves call_tool: N8NClientError is translated,
\* anything else propagates as it is
ClientFailure(res, tool) ==
    IF res.exc = "N8NClientError"
    THEN Raised("ToolExecutionError", friendly_error_message(res, tool))
    ELSE Raised(res.exc, "")

----------------------------------------------------------------------------
(* The state after construction (main.py builds the tracker, the client and
   the registry once) *)

\* the concurrent callers (requests in flight at once)
Callers == {1, 2}

NoOutcome == [kind |-> "none", text |-> ""]

\* no exception has left the client
NoneRaised == Returned(JNull)

\* a slip: a ToolExecutionError answered on the protocol's error channel
tools_call_answer_failure(outcome) ==
    IF outcome.kind = "ToolExecutionError"
    THEN [error |-> JInt(-32000), content |-> <<>>]
    ELSE [error |-> JNull,
          content |-> <<[type |-> "text",
                         text |-> IF outcome.kind = "result" THEN outcome.text
                                  ELSE "Unexpected server error while running tool"]>>]

\* main.py, tools/call: the JSON-RPC response built from how call_tool ended;
\* every branch answers JSONRPCResponse.success with one text item
tools_call_answer(outcome) ==
    LET text == IF outcome.kind = "result" THEN outcome.text
                ELSE IF outcome.kind = "ToolExecutionError"
                THEN "Tool execution failed: " \o outcome.text
                ELSE "Unexpected server error while running tool"
    IN  [error |-> JNull, content |-> <<[type |-> "text", text |-> text]>>]

\* one call of a caller: where it stands (pc), what it was given, the requests
\* it issued, what the client returned (response) or raised (raised), how
\* call_tool ended (outcome) and the responses sent for it (answers); replies
\* is history: what the upstream did with each request of the call
IdleCall ==
    [pc |-> "idle", tool |-> "", arguments |-> JDict(EmptyMap), requests |-> 0,
     replies |-> <<>>, response |-> JNull, raised |-> NoneRaised, record |-> JNull, snapshot |-> <<>>,
     seen |-> 0, outcome |-> NoOutcome, answers |-> <<>>]

\* call_tool ends and the endpoint answers
Finished(call, outcome) ==
    [call EXCEPT !.pc = "done", !.outcome = outcome,
                 !.answers = <<tools_call_answer(outcome)>>]

TrackerInit ==
    /\ entries = <<>>
    /\ lock = 0
    /\ clock = 0
    /\ added = <<>>

CallsInit ==
    /\ calls = [c \in Callers |-> IdleCall]
    /\ started = 0

HarnessInit ==
    /\ fin = JNull
    /\ fout = JNull
    /\ fkind = "none"

----------------------------------------------------------------------------
(* tracking.py: RunTracker *)

\* a slip: the deque built without maxlen
appendleft_unbounded(deque, record) == <<record>> \o deque

\* a slip: the newest record dropped at capacity instead of the oldest
appendleft_keep_old(deque, record) ==
    IF Len(deque) >= max_entries THEN deque ELSE <<record>> \o deque

\* a slip: append instead of appendleft
appendleft_at_tail(deque, record) ==
    IF Len(deque) >= max_entries THEN Tail(deque) \o <<record>> ELSE deque \o <<record>>

\* deque(maxlen=max_entries).appendleft(record): at capacity the item at the
\* other end is discarded
appendleft(deque, record) ==
    LET grown == <<record>> \o deque
    IN  IF Len(grown) > max_entries THEN SubSeq(grown, 1, max_entries) ELSE grown

\* datetime.isoformat() of the model's clock ticks
IsoFormat(n) == "2024-01-01T00:00:0" \o IntText(n) \o "+00:00"

\* DarcyExecutionRecord(workflow_id=..., execution_id=..., payload=...,
\* started_at=datetime.now(timezone.utc))
DarcyExecutionRecord(workflow_id, execution_id, payload) ==
    [workflow_id |-> workflow_id, execution_id |-> execution_id,
     payload |-> payload, started_at |-> clock]

\* a slip: the keys spelled in camel case
FormatEntryCamelCase(entry) ==
    JDict([workflowId |-> JStr(entry.workflow_id),
           executionId |-> entry.execution_id,
           payload |-> entry.payload,
           startedAt |-> JStr(IsoFormat(entry.started_at))])

\* one element of the list _handle_tracking_list formats
FormatEntry(entry) ==
    JDict([workflow_id |-> JStr(entry.workflow_id),
           execution_id |-> entry.execution_id,
           payload |-> entry.payload,
           started_at |-> JStr(IsoFormat(entry.started_at))])

FormatEntries(snapshot) == JList([i \in 1..Len(snapshot) |-> FormatEntry(snapshot[i])])

----------------------------------------------------------------------------
(* Tool calls: arguments the callers supply and replies the upstream gives *)

WorkflowArg(w) == [workflow_id |-> JStr(w)]

ListWorkflowsArguments ==
    { JDict(EmptyMap),
      JDict([limit |-> JInt(200), active |-> JBool(TRUE)]),
      JDict([limit |-> JInt(0)]) }

GetWorkflowArguments ==
    { JDict(WorkflowArg("1")), JDict(WorkflowArg("3")), JDict(EmptyMap),
      JDict([workflow_id |-> JStr("3"), bogus |-> JInt(1)]) }

RunWorkflowArguments ==
    { JDict([workflow_id |-> JStr("1"), payload |-> JDict([x |-> JInt(1)]), track |-> JBool(TRUE)]),
      JDict([workflow_id |-> JStr("1"), track |-> JBool(FALSE)]),
      JDict(WorkflowArg("3")),
      JDict([payload |-> JDict(EmptyMap)]) }

ListExecutionsArguments ==
    { JDict(EmptyMap),
      JDict(WorkflowArg("3")),
      JDict(WorkflowArg("")),
      JDict([limit |-> JInt(201)]) }

GetExecutionArguments ==
    { JDict([execution_id |-> JStr("e1")]), JDict(EmptyMap),
      JDict([execution_id |-> JInt(7)]) }

TrackingListArguments ==
    { JDict(EmptyMap), JDict([bogus |-> JInt(1)]) }

\* names with no handler: another operation, and a catalog name in other case
UnknownToolNames == {"n8n_delete_workflow", "N8N_GET_WORKFLOW"}

ScenarioB ==
    JDict([data |-> JList(<<JDict([id |-> JStr("1")]), JDict([id |-> JStr("3")])>>),
           count |-> JInt(2)])

Replies(tool) ==
    CASE tool = "n8n_get_workflow" ->
            { HttpJson(200, JDict([id |-> JStr("1"), name |-> JStr("w")])),
              HttpText(200, "<html>"),
              HttpJson(400, JDict([message |-> JStr("bad id")])),
              HttpText(401, "Unauthorized"),
              HttpJson(403, JDict([error |-> JStr("Forbidden")])),
              HttpText(404, "Not Found"),
              HttpJson(500, JDict([message |-> JStr("boom")])) }
      [] tool = "n8n_run_workflow" ->
            { HttpJson(200, JDict([id |-> JStr("exec-7")])),
              HttpJson(200, JDict([data |-> JDict([executionId |-> JInt(5)])])),
              HttpJson(200, JDict([message |-> JStr("started")])),
              HttpJson(400, JDict([message |-> JStr("Workflow has no Trigger node")])),
              NetworkFailure }
      [] tool = "n8n_get_execution" ->
            { HttpJson(200, JDict([id |-> JStr("e1"), workflowId |-> JStr("1")])),
              HttpJson(200, JDict([id |-> JStr("e1"), workflowId |-> JInt(3)])),
              HttpJson(200, JDict([id |-> JStr("e1")])),
              HttpJson(200, JDict([data |-> JDict([workflow_id |-> JStr("3")])])),
              HttpJson(500, JList(<<>>)) }
      [] tool = "n8n_list_workflows" ->
            { HttpJson(200, ScenarioB), NetworkFailure }
      [] tool = "n8n_list_executions" ->
            { HttpJson(200, JList(<<JDict([id |-> JStr("e1"), workflowId |-> JStr("1")]),
                                    JDict([id |-> JStr("e2")])>>)),
              NetworkFailure }
      [] OTHER -> {}

----------------------------------------------------------------------------
(* N8NToolRegistry.call_tool and the handlers, one action per step between
   suspension points *)

\* a caller may start a call when it runs none
CanStart(c) == calls[c].pc \in {"idle", "done"} /\ started < MaxCalls

NewCall(tool, arguments) == [IdleCall EXCEPT !.tool = tool, !.arguments = arguments]

\* the call ends at once with an exception
Fails(c, tool, arguments, kind, message) ==
    calls' = [calls EXCEPT ![c] = Finished(NewCall(tool, arguments), Raised(kind, message))]

\* the call suspends in N8NClient._request with one request issued
Requests(c, tool, arguments) ==
    calls' = [calls EXCEPT ![c] =
                 [NewCall(tool, arguments) EXCEPT !.pc = "request", !.requests = 1]]

\* a slip: the handler looked up with self._tool_handlers[name]
CallUnknownToolKeyError(c, name) ==
    /\ CanStart(c)
    /\ name \notin TOOL_NAMES
    /\ Fails(c, name, JDict(EmptyMap), "KeyError", name)
    /\ started' = started + 1
    /\ UNCHANGED <<allowlist, entries, lock, clock, added, fin, fout, fkind>>

\* call_tool with a name that has no handler
CallUnknownTool(c, name) ==
    /\ CanStart(c)
    /\ name \notin TOOL_NAMES
    /\ Fails(c, name, JDict(EmptyMap), "ToolExecutionError", "Unknown tool: " \o name)
    /\ started' = started + 1
    /\ UNCHANGED <<allowlist, entries, lock, clock, added, fin, fout, fkind>>

\* _handle_list_workflows up to the client call
HandleListWorkflows(c, arguments) ==
    LET tool == "n8n_list_workflows" IN
    /\ CanStart(c)
    /\ IF ~ValidListWorkflowsArgs(arguments)
       THEN Fails(c, tool, arguments, "ValidationError", "")
       ELSE IF ~CallBinds(list_workflows_keywords, list_workflows_params)
       THEN Fails(c, tool, arguments, "TypeError", "")
       ELSE Requests(c, tool, arguments)
    /\ started' = started + 1
    /\ UNCHANGED <<allowlist, entries, lock, clock, added, fin, fout, fkind>>

\* a slip: the allowlist consulted on the raw arguments, before they are parsed
HandleGetWorkflowAllowlistFirst(c, arguments) ==
    LET tool == "n8n_get_workflow"
        workflow_id == Get(arguments, "workflow_id")
    IN
    /\ CanStart(c)
    /\ IF AllowlistTruthy /\ (workflow_id.t # "str" \/ workflow_id.v \notin allowlist.items)
       THEN Fails(c, tool, arguments, "ToolExecutionError",
                  "Workflow is not permitted by the allowlist")
       ELSE IF ~ValidGetWorkflowArgs(arguments)
       THEN Fails(c, tool, arguments, "ValidationError", "")
       ELSE Requests(c, tool, arguments)
    /\ started' = started + 1
    /\ UNCHANGED <<allowlist, entries, lock, clock, added, fin, fout, fkind>>

\* _handle_get_workflow up to the client call
HandleGetWorkflow(c, arguments) ==
    LET tool == "n8n_get_workflow" IN
    /\ CanStart(c)
    /\ IF ~ValidGetWorkflowArgs(arguments)
       THEN Fails(c, tool, arguments, "ValidationError", "")
       ELSE IF ~ensure_workflow_allowed(ArgWorkflowId(arguments).v)
       THEN Fails(c, tool, arguments, "ToolExecutionError",
                  "Workflow is not permitted by the allowlist")
       ELSE Requests(c, tool, arguments)
    /\ started' = started + 1
    /\ UNCHANGED <<allowlist, entries, lock, clock, added, fin, fout, fkind>>

\* a slip: _handle_run_workflow without its allowlist check
HandleRunWorkflowUnchecked(c, arguments) ==
    LET tool == "n8n_run_workflow" IN
    /\ CanStart(c)
    /\ IF ~ValidRunWorkflowArgs(arguments)
       THEN Fails(c, tool, arguments, "ValidationError", "")
       ELSE Requests(c, tool, arguments)
    /\ started' = started + 1
    /\ UNCHANGED <<allowlist, entries, lock, clock, added, fin, fout, fkind>>

\* _handle_run_workflow up to the client call
HandleRunWorkflow(c, arguments) ==
    LET tool == "n8n_run_workflow" IN
    /\ CanStart(c)
    /\ IF ~ValidRunWorkflowArgs(arguments)
       THEN Fails(c, tool, arguments, "ValidationError", "")
       ELSE IF ~ensure_workflow_allowed(ArgWorkflowId(arguments).v)
       THEN Fails(c, tool, arguments, "ToolExecutionError",
                  "Workflow is not permitted by the allowlist")
       ELSE Requests(c, tool, arguments)
    /\ started' = started + 1
    /\ UNCHANGED <<allowlist, entries, lock, clock, added, fin, fout, fkind>>

\* _handle_list_executions up to the client call
HandleListExecutions(c, arguments) ==
    LET tool == "n8n_list_executions" IN
    /\ CanStart(c)
    /\ IF ~ValidListExecutionsArgs(arguments)
       THEN Fails(c, tool, arguments, "ValidationError", "")
       ELSE IF ~list_executions_allowed(ArgWorkflowId(arguments))
       THEN Fails(c, tool, arguments, "ToolExecutionError",
                  "Workflow is not permitted by the allowlist")
       ELSE IF ~CallBinds(list_executions_keywords, list_executions_params)
       THEN Fails(c, tool, arguments, "TypeError", "")
       ELSE Requests(c, tool, arguments)
    /\ started' = started + 1
    /\ UNCHANGED <<allowlist, entries, lock, clock, added, fin, fout, fkind>>

\* _handle_get_execution up to the client call
HandleGetExecution(c, arguments) ==
    LET tool == "n8n_get_execution" IN
    /\ CanStart(c)
    /\ IF ~ValidGetExecutionArgs(arguments)
       THEN Fails(c, tool, arguments, "ValidationError", "")
       ELSE Requests(c, tool, arguments)
    /\ started' = started + 1
    /\ UNCHANGED <<allowlist, entries, lock, clock, added, fin, fout, fkind>>

\* _handle_tracking_list up to the lock of RunTracker.list_entries
HandleTrackingList(c, arguments) ==
    LET tool == "darcy_tracking_list" IN
    /\ CanStart(c)
    /\ IF ~ValidEmptyArgs(arguments)
       THEN Fails(c, tool, arguments, "ValidationError", "")
       ELSE calls' = [calls EXCEPT ![c] =
                         [NewCall(tool, arguments) EXCEPT !.pc = "list_entries"]]
    /\ started' = started + 1
    /\ UNCHANGED <<allowlist, entries, lock, clock, added, fin, fout, fkind>>

\* what the handler of a call does with the value the client returned: the
\* call it turns into
AfterResponse(call, payload) ==
    LET done(outcome) == Finished([call EXCEPT !.response = payload], outcome)
    IN  CASE call.tool = "n8n_list_workflows" ->
                done(as_mcp_text(format_json(filter_workflows(payload))))
          [] call.tool = "n8n_get_workflow" ->
                done(as_mcp_text(format_json(payload)))
          [] call.tool = "n8n_run_workflow" ->
                IF ArgTrack(call.arguments)
                THEN [call EXCEPT !.pc = "add_entry", !.response = payload,
                                  !.record = DarcyExecutionRecord(
                                                 ArgWorkflowId(call.arguments).v,
                                                 extract_execution_id(payload),
                                                 ArgPayload(call.arguments))]
                ELSE done(as_mcp_text(format_json(payload)))
          [] call.tool = "n8n_list_executions" ->
                done(as_mcp_text(format_json(filter_executions(payload))))
          [] call.tool = "n8n_get_execution" ->
                IF get_execution_allowed(extract_workflow_id_from_execution(payload))
                THEN done(as_mcp_text(format_json(payload)))
                ELSE done(Raised("ToolExecutionError",
                                 "Execution belongs to a workflow outside the allowlist"))

\* a slip: a failed request sent once more
RequestCompletesRetry(c, reply) ==
    LET call == [calls[c] EXCEPT !.replies = Append(@, reply)]
        res == request(reply)
        next == IF res.ok THEN AfterResponse(call, res.value)
                ELSE IF call.requests < 2 THEN [call EXCEPT !.requests = @ + 1]
                ELSE Finished([call EXCEPT !.raised = res], ClientFailure(res, call.tool))
    IN  /\ call.pc = "request"
        /\ reply \in Replies(call.tool)
        /\ calls' = [calls EXCEPT ![c] = next]
        /\ clock' = IF next.pc = "add_entry" THEN clock + 1 ELSE clock
        /\ UNCHANGED <<allowlist, entries, lock, started, added, fin, fout, fkind>>

\* the awaited client call ends: _request returns or raises, and the handler
\* runs on to its next suspension point or to its end
RequestCompletes(c, reply) ==
    LET call == [calls[c] EXCEPT !.replies = Append(@, reply)]
        res == request(reply)
        next == IF res.ok THEN AfterResponse(call, res.value)
                ELSE Finished([call EXCEPT !.raised = res], ClientFailure(res, call.tool))
    IN  /\ call.pc = "request"
        /\ reply \in Replies(call.tool)
        /\ calls' = [calls EXCEPT ![c] = next]
        /\ clock' = IF next.pc = "add_entry" THEN clock + 1 ELSE clock
        /\ UNCHANGED <<allowlist, entries, lock, started, added, fin, fout, fkind>>

\* a slip: add_entry entered without waiting for the lock
AddEntryAcquireNoWait(c) ==
    /\ calls[c].pc = "add_entry"
    /\ lock' = c
    /\ calls' = [calls EXCEPT ![c].pc = "add_locked"]
    /\ UNCHANGED <<allowlist, entries, clock, started, added, fin, fout, fkind>>

\* RunTracker.add_entry: "async with self._lock" entered
AddEntryAcquire(c) ==
    /\ calls[c].pc = "add_entry"
    /\ lock = 0
    /\ lock' = c
    /\ calls' = [calls EXCEPT ![c].pc = "add_locked"]
    /\ UNCHANGED <<allowlist, entries, clock, started, added, fin, fout, fkind>>

\* a slip: the record appended but the lock never released
AddEntryAppendKeepsLock(c) ==
    /\ calls[c].pc = "add_locked"
    /\ lock = c
    /\ entries' = appendleft(entries, calls[c].record)
    /\ added' = <<calls[c].record>> \o added
    /\ calls' = [calls EXCEPT ![c] =
                    IF calls[c].tool = "n8n_run_workflow"
                    THEN Finished(calls[c], as_mcp_text(format_json(calls[c].response)))
                    ELSE [calls[c] EXCEPT !.pc = "done"]]
    /\ UNCHANGED <<allowlist, lock, clock, started, fin, fout, fkind>>

\* RunTracker.add_entry: appendleft, the lock released, and the handler's
\* return of the formatted response
AddEntryAppend(c) ==
    /\ calls[c].pc = "add_locked"
    /\ lock = c
    /\ entries' = appendleft(entries, calls[c].record)
    /\ added' = <<calls[c].record>> \o added
    /\ lock' = 0
    /\ calls' = [calls EXCEPT ![c] =
                    IF calls[c].tool = "n8n_run_workflow"
                    THEN Finished(calls[c], as_mcp_text(format_json(calls[c].response)))
                    ELSE [calls[c] EXCEPT !.pc = "done"]]
    /\ UNCHANGED <<allowlist, clock, started, fin, fout, fkind>>

\* RunTracker.list_entries: "async with self._lock" entered
ListEntriesAcquire(c) ==
    /\ calls[c].pc = "list_entries"
    /\ lock = 0
    /\ lock' = c
    /\ calls' = [calls EXCEPT ![c].pc = "list_locked"]
    /\ UNCHANGED <<allowlist, entries, clock, started, added, fin, fout, fkind>>

\* RunTracker.list_entries: the copy, the lock released, and the handler's
\* return of the formatted entries
ListEntriesCopy(c) ==
    /\ calls[c].pc = "list_locked"
    /\ lock = c
    /\ lock' = 0
    /\ calls' = [calls EXCEPT ![c] =
                    LET copied == [calls[c] EXCEPT !.snapshot = entries, !.seen = Len(added)]
                    IN  IF calls[c].tool = "darcy_tracking_list"
                        THEN Finished(copied, as_mcp_text(format_json(FormatEntries(entries))))
                        ELSE [copied EXCEPT !.pc = "done"]]
    /\ UNCHANGED <<allowlist, entries, clock, started, added, fin, fout, fkind>>

Init ==
    /\ allowlist \in AllowlistChoices
    /\ TrackerInit
    /\ CallsInit
    /\ HarnessInit

Next ==
    \E c \in Callers :
        \/ \E name \in UnknownToolNames : CallUnknownTool(c, name)
        \/ \E arguments \in ListWorkflowsArguments : HandleListWorkflows(c, arguments)
        \/ \E arguments \in GetWorkflowArguments : HandleGetWorkflow(c, arguments)
        \/ \E arguments \in RunWorkflowArguments : HandleRunWorkflow(c, arguments)
        \/ \E arguments \in ListExecutionsArguments : HandleListExecutions(c, arguments)
        \/ \E arguments \in GetExecutionArguments : HandleGetExecution(c, arguments)
        \/ \E arguments \in TrackingListArguments : HandleTrackingList(c, arguments)
        \/ \E reply \in Replies(calls[c].tool) : RequestCompletes(c, reply)
        \/ AddEntryAcquire(c)
        \/ AddEntryAppend(c)
        \/ ListEntriesAcquire(c)
        \/ ListEntriesCopy(c)

Spec == Init /\ [][Next]_vars

----------------------------------------------------------------------------
(* TrackerSpec: callers that use the RunTracker directly *)

\* tracker calls started in one run: enough to overflow the deque and to
\* list it afterwards
MaxTrackerCalls == max_entries + 2

\* the (workflow_id, execution_id) pairs the callers record
TrackerRuns == {<<"1", JStr("exec-7")>>, <<"3", JNull>>}

\* add_entry(workflow_id=..., execution_id=..., payload=...) up to the lock:
\* the record is constructed with the current time
AddEntry(c, workflow_id, execution_id, payload) ==
    /\ calls[c].pc \in {"idle", "done"}
    /\ started < MaxTrackerCalls
    /\ calls' = [calls EXCEPT ![c] =
                    [NewCall("add_entry", JDict(EmptyMap)) EXCEPT
                         !.pc = "add_entry",
                         !.record = DarcyExecutionRecord(workflow_id, execution_id, payload)]]
    /\ clock' = clock + 1
    /\ started' = started + 1
    /\ UNCHANGED <<allowlist, entries, lock, added, fin, fout, fkind>>

\* list_entries() up to the lock
ListEntries(c) ==
    /\ calls[c].pc \in {"idle", "done"}
    /\ started < MaxTrackerCalls
    /\ calls' = [calls EXCEPT ![c] =
                    [NewCall("list_entries", JDict(EmptyMap)) EXCEPT !.pc = "list_entries"]]
    /\ started' = started + 1
    /\ UNCHANGED <<allowlist, entries, lock, clock, added, fin, fout, fkind>>

TrackerNext ==
    \E c \in Callers :
        \/ \E run \in TrackerRuns : AddEntry(c, run[1], run[2], JDict(EmptyMap))
        \/ ListEntries(c)
        \/ AddEntryAcquire(c)
        \/ AddEntryAppend(c)
        \/ ListEntriesAcquire(c)
        \/ ListEntriesCopy(c)

TrackerSpec == Init /\ [][TrackerNext]_vars

----------------------------------------------------------------------------
(* FilterSpec: an upstream response arrives and one of the list filters is
   applied to it *)

\* the upstream response grows by one item
ExtendResponse(item) ==
    /\ fkind = "none"
    /\ FilledLen(fin) < MaxItems
    /\ fin' = WithItem(fin, item)
    /\ UNCHANGED <<allowlist, entries, lock, clock, calls, started, added, fout, fkind>>

ApplyFilterWorkflows ==
    /\ fkind = "none"
    /\ fout' = filter_workflows(fin)
    /\ fkind' = "workflows"
    /\ UNCHANGED <<allowlist, entries, lock, clock, calls, started, added, fin>>

ApplyFilterExecutions ==
    /\ fkind = "none"
    /\ fout' = filter_executions(fin)
    /\ fkind' = "executions"
    /\ UNCHANGED <<allowlist, entries, lock, clock, calls, started, added, fin>>

FilterInit ==
    /\ allowlist \in AllowlistChoices
    /\ TrackerInit
    /\ CallsInit
    /\ fin \in ResponseSkeletons
    /\ fout = JNull
    /\ fkind = "none"

FilterNext ==
    \/ \E item \in ResponseItems : ExtendResponse(item)
    \/ ApplyFilterWorkflows
    \/ ApplyFilterExecutions

FilterSpec == FilterInit /\ [][FilterNext]_vars

----------------------------------------------------------------------------
(* Claims about the list filters (checked under FilterSpec) *)

\* the array keys of the filter that ran, in the order the code visits them
ArrayKeys == IF fkind = "workflows" THEN <<"data", "workflows", "items">>
             ELSE <<"data", "executions", "items">>

CountKeys == {"count", "total", "totalCount"}

\* the item predicate of the filter that ran
Matches(item) == IF fkind = "workflows" THEN is_allowed_workflow(item)
                 ELSE is_allowed_execution(item)

\* M: how many items of an upstream array the allowlist matches
RECURSIVE MatchCount(_)
MatchCount(s) ==
    IF s = <<>> THEN 0
    ELSE (IF Matches(Head(s)) THEN 1 ELSE 0) + MatchCount(Tail(s))

\* the keys of the upstream object that hold arrays
ArraysOf(payload) ==
    {ArrayKeys[i] : i \in {n \in 1..3 : IsList(Get(payload, ArrayKeys[n]))}}

\* the last array key the loop filtered
LastArrayKey(payload) ==
    ArrayKeys[CHOOSE i \in 1..3 :
                  /\ IsList(Get(payload, ArrayKeys[i]))
                  /\ \A n \in (i + 1)..3 : ~IsList(Get(payload, ArrayKeys[n]))]

\* a filter ran with an allowlist configured on a list-shaped response
FilteredListShaped ==
    /\ fkind # "none"
    /\ AllowlistTruthy
    /\ \/ IsList(fin)
       \/ IsDict(fin) /\ ArraysOf(fin) # {}

\* the integer-valued count fields of the filtered object
IntCountFields == {k \in CountKeys \cap DOMAIN fout.v : fout.v[k].t = "int"}

FirstPresentId(item) ==
    IF ~IsDict(item) THEN JNull
    ELSE IF Get(item, "id") # JNull THEN Get(item, "id")
    ELSE IF Get(item, "workflowId") # JNull THEN Get(item, "workflowId")
    ELSE Get(item, "_id")

KeptByFirstPresentId(item) ==
    /\ FirstPresentId(item) # JNull
    /\ PyStr(FirstPresentId(item)) \in allowlist.items

\* C4 as claimed: with an allowlist, the workflow filter keeps exactly the
\* items, in order, whose first present identifier key (id, workflowId, _id)
\* is in the allowlist.
C4_KeepsFirstPresentId ==
    (fkind = "workflows" /\ AllowlistTruthy) =>
        /\ IsList(fin) => fout = JList(SelectSeq(fin.v, KeptByFirstPresentId))
        /\ IsDict(fin) =>
               \A key \in ArraysOf(fin) :
                   Get(fout, key) = JList(SelectSeq(fin.v[key].v, KeptByFirstPresentId))

----------------------------------------------------------------------------
(* Claims about tool calls (checked under Spec) *)

\* the validated workflow_id of a call of one of the tools that take one
HasWorkflowId(call) ==
    /\ call.pc # "idle"
    /\ \/ call.tool = "n8n_get_workflow" /\ ValidGetWorkflowArgs(call.arguments)
       \/ call.tool = "n8n_run_workflow" /\ ValidRunWorkflowArgs(call.arguments)
       \/ /\ call.tool = "n8n_list_executions"
          /\ ValidListExecutionsArgs(call.arguments)
          /\ Has(call.arguments, "workflow_id")
          /\ call.arguments.v["workflow_id"].t = "str"

NotInAllowlist(call) ==
    /\ ~allowlist.isNone
    /\ allowlist.items # {}
    /\ call.arguments.v["workflow_id"].v \notin allowlist.items

DeniedWithoutRequest(call) ==
    /\ call.pc = "done"
    /\ call.outcome.kind = "ToolExecutionError"
    /\ call.requests = 0

\* C1 as claimed: with an allowlist, every call of n8n_get_workflow or
\* n8n_run_workflow, and of n8n_list_executions with a workflow_id supplied,
\* whose workflow_id is not in the allowlist ends in a ToolExecutionError
\* with no remote request issued.
C1_DeniedAnySuppliedId ==
    \A c \in Callers :
        (HasWorkflowId(calls[c]) /\ NotInAllowlist(calls[c]))
            => DeniedWithoutRequest(calls[c])

\* C1 amended: the same for n8n_get_workflow and n8n_run_workflow, and for
\* n8n_list_executions when the workflow_id supplied is a non-empty string
\* (an empty workflow_id counts as no filter and is not denied).
C1_DeniedBeforeRequest ==
    \A c \in Callers :
        (/\ HasWorkflowId(calls[c])
         /\ NotInAllowlist(calls[c])
         /\ calls[c].tool = "n8n_list_executions"
                => calls[c].arguments.v["workflow_id"].v # "")
            => DeniedWithoutRequest(calls[c])

\* C1 witness: n8n_get_workflow for workflow 3 was denied under the
\* allowlist {1,2} and issued no request.
C1_Witness ==
    \E c \in Callers :
        /\ allowlist = SetAllowlist({"1", "2"})
        /\ calls[c].tool = "n8n_get_workflow"
        /\ calls[c].arguments = JDict(WorkflowArg("3"))
        /\ calls[c].outcome =
               Raised("ToolExecutionError", "Workflow is not permitted by the allowlist")
        /\ calls[c].requests = 0

\* the owning workflow of a fetched execution, as the spec words it:
\* workflowId / workflow_id at top level, else under data
OwnerInAllowlist(payload) ==
    /\ IsDict(payload)
    /\ \E holder \in {payload} \cup {Get(payload, "data")} :
           /\ IsDict(holder)
           /\ \E key \in {"workflowId", "workflow_id"} :
                  /\ Has(holder, key)
                  /\ PyStr(holder.v[key]) \in allowlist.items

\* C2 as claimed: with an allowlist, n8n_get_execution returns the fetched
\* body only when the workflow owning the execution is in the allowlist.
C2_ReturnsOnlyAllowedOwner ==
    \A c \in Callers :
        (/\ calls[c].tool = "n8n_get_execution"
         /\ calls[c].pc = "done"
         /\ calls[c].outcome.kind = "result"
         /\ ~allowlist.isNone /\ allowlist.items # {})
            => OwnerInAllowlist(calls[c].response)

\* C5 as claimed: n8n_list_workflows with valid arguments ends as the text of
\* the allowlist-filtered upstream response (or, when the upstream failed, as
\* the ToolExecutionError translating that failure), never in an unexpected
\* error.
C5_ListWorkflowsCompletes ==
    \A c \in Callers :
        (/\ calls[c].tool = "n8n_list_workflows"
         /\ calls[c].pc = "done"
         /\ ValidListWorkflowsArgs(calls[c].arguments))
            => \/ /\ calls[c].outcome.kind = "result"
                  /\ calls[c].requests = 1
                  /\ calls[c].outcome.text = format_json(filter_workflows(calls[c].response))
               \/ /\ calls[c].outcome.kind = "ToolExecutionError"
                  /\ calls[c].requests = 1

\* track as the caller asked for it (true when not supplied)
TrackRequested(call) ==
    Has(call.arguments, "track") => call.arguments.v["track"].v

PayloadSupplied(call) ==
    IF Has(call.arguments, "payload") THEN call.arguments.v["payload"] ELSE JDict(EmptyMap)

\* a tracked n8n_run_workflow call returns in this step
TrackedRunReturns(c) ==
    /\ calls[c].tool = "n8n_run_workflow"
    /\ calls[c].pc # "done"
    /\ calls'[c].pc = "done"
    /\ calls'[c].outcome.kind = "result"
    /\ TrackRequested(calls[c])

\* C6: when an n8n_run_workflow call with track = true (the default) returns
\* its result, that step adds exactly one record, at the head of the tracker:
\* its workflow_id and payload are the call's arguments and its execution_id
\* is the identifier extracted from the remote response (None when there is
\* none; "exec-7" for the response {"id": "exec-7"}); the result is the
\* pretty-printed response.
C6_TrackedRunRecorded ==
    [][\A c \in Callers :
          TrackedRunReturns(c) =>
              /\ Len(added') = Len(added) + 1
              /\ Len(entries') >= 1
              /\ Tail(entries') = SubSeq(entries, 1, Len(entries') - 1)
              /\ Head(entries') = Head(added')
              /\ Head(entries').workflow_id = calls[c].arguments.v["workflow_id"].v
              /\ Head(entries').payload = PayloadSupplied(calls[c])
              /\ Head(entries').execution_id = extract_execution_id(calls[c].response)
              /\ calls[c].response = JDict([id |-> JStr("exec-7")])
                     => /\ Head(entries').execution_id = JStr("exec-7")
                        /\ calls'[c].outcome.text = "{\n  \"id\": \"exec-7\"\n}"
              /\ calls[c].response = JDict([message |-> JStr("started")])
                     => /\ Head(entries').execution_id = JNull
                        /\ calls'[c].outcome.text = "{\n  \"message\": \"started\"\n}"
      ]_vars

\* C6 witness: scenario A of the spec (with workflow 1): the call returned
\* the pretty-printed {"id": "exec-7"} and the head of the tracker is its
\* record, on top of an older one.
C6_Witness ==
    \E c \in Callers :
        /\ calls[c].tool = "n8n_run_workflow"
        /\ calls[c].pc = "done"
        /\ calls[c].arguments =
               JDict([workflow_id |-> JStr("1"), payload |-> JDict([x |-> JInt(1)]),
                      track |-> JBool(TRUE)])
        /\ calls[c].outcome = as_mcp_text("{\n  \"id\": \"exec-7\"\n}")
        /\ Len(entries) = 2
        /\ entries[1].workflow_id = "1"
        /\ entries[1].execution_id = JStr("exec-7")
        /\ entries[1].payload = JDict([x |-> JInt(1)])
        /\ entries[1] = calls[c].record

\* C7: the tracker changes only in the step in which an n8n_run_workflow call
\* with track = true, whose one remote request returned a body, appends its
\* record; every other step of every call leaves it unchanged.
C7_TrackerChangesOnlyByTrackedRun ==
    [][(entries' # entries \/ added' # added) =>
          \E c \in Callers :
              /\ TrackedRunReturns(c)
              /\ calls[c].requests = 1
              /\ calls[c].pc = "add_locked"
              /\ ValidRunWorkflowArgs(calls[c].arguments)
              /\ added' = <<calls[c].record>> \o added
              /\ \A d \in Callers \ {c} : calls'[d] = calls[d]
      ]_vars

\* C7 witness: calls that must not touch the tracker have ended (a run with
\* track = false that returned, and a run whose remote call failed) and the
\* tracker is empty.
C7_Witness ==
    /\ entries = <<>>
    /\ added = <<>>
    /\ \E c, d \in Callers :
           /\ calls[c].tool = "n8n_run_workflow"
           /\ calls[c].pc = "done"
           /\ calls[c].outcome.kind = "result"
           /\ ~TrackRequested(calls[c])
           /\ calls[d].tool = "n8n_run_workflow"
           /\ calls[d].pc = "done"
           /\ calls[d].requests = 1
           /\ calls[d].outcome.kind = "ToolExecutionError"

----------------------------------------------------------------------------
(* Claims about the tracker (checked under TrackerSpec) *)

Min(a, b) == IF a < b THEN a ELSE b

\* the n most recent of the records in a history (newest first)
MostRecent(history, n) == SubSeq(history, 1, Min(n, Len(history)))

\* the history as it was when only the first k appends had completed
FirstAppends(k) == SubSeq(added, Len(added) - k + 1, Len(added))

\* C8: the tracker never holds more than its configured maximum of records.
C8_TrackerBounded == Len(entries) <= max_entries

\* C8 witness: more appends completed than the maximum, and the tracker is
\* full.
C8_Witness == Len(added) > max_entries /\ Len(entries) = max_entries

\* C9: after k appends the tracker holds exactly the min(k, max) most recently
\* added records, newest first (so an append at capacity evicted the oldest),
\* and a list_entries call that copied the deque after k appends returned
\* exactly those.
C9_MostRecentFirst ==
    /\ entries = MostRecent(added, max_entries)
    /\ \A c \in Callers :
           (calls[c].tool \in {"list_entries", "darcy_tracking_list"} /\ calls[c].pc = "done"
                /\ calls[c].outcome.kind # "ValidationError")
               => calls[c].snapshot = MostRecent(FirstAppends(calls[c].seen), max_entries)

\* C9 witness: list_entries returned after max + 1 appends: it holds max
\* records, the newest first, and not the oldest one.
C9_Witness ==
    \E c \in Callers :
        /\ calls[c].tool = "list_entries"
        /\ calls[c].pc = "done"
        /\ calls[c].seen = max_entries + 1
        /\ Len(calls[c].snapshot) = max_entries
        /\ calls[c].snapshot[1] = added[1]
        /\ \A i \in 1..max_entries : calls[c].snapshot[i] # added[Len(added)]

\* the callers inside "async with self._lock"
InLock == {c \in Callers : calls[c].pc \in {"add_locked", "list_locked"}}

\* C10: add_entry and list_entries are atomic with respect to each other: at
\* most one caller is inside the lock, and it is the holder; no insertion is
\* lost (k completed insertions, k <= capacity, leave exactly k records); and
\* every snapshot list_entries returned is the buffer as it was after some
\* number of complete insertions.
C10_AtomicOperations ==
    /\ Cardinality(InLock) <= 1
    /\ \A c \in Callers : (c \in InLock) <=> (lock = c)
    /\ Len(added) <= max_entries => Len(entries) = Len(added)
    /\ \A r \in {added[i] : i \in 1..Min(Len(added), max_entries)} :
           \E i \in 1..Len(entries) : entries[i] = r
    /\ \A c \in Callers :
           (calls[c].tool = "list_entries" /\ calls[c].pc = "done")
               => \E k \in 0..Len(added) :
                      calls[c].snapshot = MostRecent(FirstAppends(k), max_entries)

\* C10 witness: one caller holds the lock to append while the other waits to
\* list, after an insertion has completed.
C10_Witness ==
    \E c, d \in Callers :
        /\ calls[c].pc = "add_locked"
        /\ lock = c
        /\ calls[d].pc = "list_entries"
        /\ Len(added) >= 1

----------------------------------------------------------------------------
(* Claims about errors (checked under Spec) *)

\* C11: a call_tool with a name outside the catalog of six ends at once in a
\* ToolExecutionError whose message contains the unknown name; it is never an
\* unexpected error, issues no remote request, and the step leaves the tracker
\* as it was.
C11_UnknownToolRecoverable ==
    /\ [](\A c \in Callers :
              (calls[c].pc # "idle" /\ calls[c].tool \notin TOOL_NAMES
                   /\ calls[c].tool \notin {"add_entry", "list_entries"})
                  => /\ calls[c].pc = "done"
                     /\ calls[c].outcome.kind = "ToolExecutionError"
                     /\ Contains(calls[c].outcome.text, calls[c].tool)
                     /\ calls[c].requests = 0
                     /\ calls[c].record = JNull)
    /\ [][\A c \in Callers :
              (calls'[c] # calls[c] /\ calls'[c].tool \notin TOOL_NAMES)
                  => (entries' = entries /\ added' = added /\ lock' = lock)]_vars

\* C11 witness: N8N_GET_WORKFLOW (not a catalog name: names are matched
\* exactly) was refused while the tracker holds a record.
C11_Witness ==
    \E c \in Callers :
        /\ calls[c].tool = "N8N_GET_WORKFLOW"
        /\ calls[c].outcome = Raised("ToolExecutionError", "Unknown tool: N8N_GET_WORKFLOW")
        /\ calls[c].requests = 0
        /\ Len(entries) = 1

\* the calls whose awaited client call raised N8NClientError
RemoteErrorCalls == {c \in Callers : calls[c].raised.exc = "N8NClientError"}

\* C12: whenever the client raises N8NClientError during a tool call, the call
\* ends in a ToolExecutionError with a message (and the caller is answered
\* with that message as text); no call ends with N8NClientError itself.
C12_RemoteErrorsTranslated ==
    /\ \A c \in Callers : calls[c].outcome.kind # "N8NClientError"
    /\ \A c \in RemoteErrorCalls :
           /\ calls[c].pc = "done"
           /\ calls[c].requests = 1
           /\ calls[c].outcome.kind = "ToolExecutionError"
           /\ calls[c].outcome.text # ""
           /\ calls[c].answers =
                  <<[error |-> JNull,
                     content |-> <<[type |-> "text",
                                    text |-> "Tool execution failed: " \o calls[c].outcome.text]>>]>>

\* C12 witness: the network failed under n8n_run_workflow (status 0) and the
\* call ended in the translated ToolExecutionError.
C12_Witness ==
    \E c \in RemoteErrorCalls :
        /\ calls[c].tool = "n8n_run_workflow"
        /\ calls[c].raised.status_code = 0
        /\ calls[c].outcome = Raised("ToolExecutionError", "Unable to reach n8n API")

\* the message the error-mapping table gives for a status, an original message
\* and a tool, as a predicate on the text
TableMessage(status, original, tool, text) ==
    CASE status = 400 /\ Contains(Lower(original), "trigger") ->
            Contains(text, "missing a trigger node")
      [] status = 400 /\ ~Contains(Lower(original), "trigger") ->
            text = "n8n returned a bad request for " \o tool \o ": " \o original
      [] status = 401 -> text = "n8n API rejected the credentials"
      [] status = 403 -> text = "n8n API denied access to this resource"
      [] status = 404 -> text = "Requested resource was not found in n8n"
      [] status = 0 -> text = "Unable to reach n8n API"
      [] OTHER -> text = "n8n error " \o StatusText(status) \o ": " \o original

\* C13: the message of the ToolExecutionError for a remote error follows the
\* error-mapping table by status: 400 with "trigger" in the original message
\* in any case -> "missing a trigger node"; other 400 -> the bad-request
\* message with the tool and the original message; 401, 403, 404, 0 -> their
\* fixed messages; any other status -> the status and the original message.
\* Scenario C ("Workflow has no Trigger node") is in the first row.
C13_MessageByStatus ==
    \A c \in RemoteErrorCalls :
        /\ TableMessage(calls[c].raised.status_code, PyStr(calls[c].raised.message),
                        calls[c].tool, calls[c].outcome.text)
        /\ (calls[c].raised.status_code = 400
              /\ calls[c].raised.message = JStr("Workflow has no Trigger node"))
               => Contains(calls[c].outcome.text, "missing a trigger node")

\* C13 witness: scenario C has happened, and another call met a status
\* outside the table (500) and carries the status and the original message.
C13_Witness ==
    \E c, d \in RemoteErrorCalls :
        /\ calls[c].tool = "n8n_run_workflow"
        /\ calls[c].raised = ClientError(400, JStr("Workflow has no Trigger node"))
        /\ Contains(calls[c].outcome.text, "missing a trigger node")
        /\ calls[d].raised.status_code = 500
        /\ calls[d].outcome.text = "n8n error 500: boom"

\* the arguments of a call pass the schema of its tool
ArgumentsValid(call) ==
    CASE call.tool = "n8n_list_workflows" -> ValidListWorkflowsArgs(call.arguments)
      [] call.tool = "n8n_get_workflow" -> ValidGetWorkflowArgs(call.arguments)
      [] call.tool = "n8n_run_workflow" -> ValidRunWorkflowArgs(call.arguments)
      [] call.tool = "n8n_list_executions" -> ValidListExecutionsArgs(call.arguments)
      [] call.tool = "n8n_get_execution" -> ValidGetExecutionArgs(call.arguments)
      [] call.tool = "darcy_tracking_list" -> ValidEmptyArgs(call.arguments)
      [] OTHER -> TRUE

\* the calls of catalog tools whose arguments fail validation
InvalidCalls ==
    {c \in Callers : calls[c].pc # "idle" /\ calls[c].tool \in TOOL_NAMES
                        /\ ~ArgumentsValid(calls[c])}

GenericText == "Unexpected server error while running tool"

\* C14 as claimed: a tool call whose arguments fail schema validation ends as
\* a recoverable failure - a ToolExecutionError, or a JSON-RPC error response
\* - and is not answered with the generic unexpected-server-error text.
C14_ValidationRecoverable ==
    \A c \in InvalidCalls :
        /\ calls[c].pc = "done"
        /\ \/ calls[c].outcome.kind = "ToolExecutionError"
           \/ \E i \in 1..Len(calls[c].answers) : calls[c].answers[i].error # JNull
        /\ \A i \in 1..Len(calls[c].answers) :
               calls[c].answers[i].content[1].text # GenericText

\* the calls that came in as tools/call requests
ToolCalls == {c \in Callers : calls[c].pc # "idle"
                                 /\ calls[c].tool \notin {"add_entry", "list_entries"}}

\* C15: a tools/call request is answered exactly once, when its call ends, by
\* a successful protocol response carrying one text item: the result text on
\* success; a text containing the failure message when the tool raised
\* ToolExecutionError; one fixed generic text for every other exception.
C15_OneTextAnswer ==
    \A c \in ToolCalls :
        /\ calls[c].pc # "done" => calls[c].answers = <<>>
        /\ calls[c].pc = "done" =>
               /\ Len(calls[c].answers) = 1
               /\ calls[c].answers[1].error = JNull
               /\ Len(calls[c].answers[1].content) = 1
               /\ calls[c].answers[1].content[1].type = "text"
               /\ LET text == calls[c].answers[1].content[1].text
                      outcome == calls[c].outcome
                  IN  CASE outcome.kind = "result" -> text = outcome.text
                        [] outcome.kind = "ToolExecutionError" ->
                               /\ Contains(text, outcome.text)
                               /\ text # GenericText
                        [] OTHER -> text = GenericText

\* C15 witness: one call was denied by the allowlist and answered with the
\* denial as text; another ended in an exception that is not a
\* ToolExecutionError and was answered with the generic text.
C15_Witness ==
    \E c, d \in ToolCalls :
        /\ calls[c].outcome.kind = "ToolExecutionError"
        /\ calls[c].answers[1].content[1].text =
               "Tool execution failed: Workflow is not permitted by the allowlist"
        /\ calls[d].pc = "done"
        /\ calls[d].outcome.kind \notin {"result", "ToolExecutionError"}
        /\ calls[d].answers[1].content[1].text = GenericText

----------------------------------------------------------------------------
(* AllowlistSpec: the setting N8N_WORKFLOW_ALLOWLIST is written character by
   character, validated, and the validated value validated again *)

AllowlistChars == {"1", "2", ",", " "}

ExtendValue(ch) ==
    /\ fkind = "none"
    /\ fin.t = "str"
    /\ Len(fin.v) < MaxText
    /\ fin' = JStr(fin.v \o ch)
    /\ UNCHANGED <<allowlist, entries, lock, clock, calls, started, added, fout, fkind>>

\* Settings(...) validates the value given
ParseAllowlist ==
    /\ fkind = "none"
    /\ allowlist' = parse_allowlist(fin)
    /\ fkind' = "parsed"
    /\ UNCHANGED <<entries, lock, clock, calls, started, added, fin, fout>>

\* the validated value (None or a set) given to the validator again
ParseAgain ==
    /\ fkind = "parsed"
    /\ fout' = parse_allowlist(IF allowlist.isNone THEN JNull ELSE PySet(allowlist.items))
    /\ fkind' = "reparsed"
    /\ UNCHANGED <<allowlist, entries, lock, clock, calls, started, added, fin>>

AllowlistInit ==
    /\ allowlist = NoneAllowlist
    /\ TrackerInit
    /\ CallsInit
    /\ fin \in {JNull, JStr(""), PySet({})}
    /\ fout = JNull
    /\ fkind = "none"

AllowlistNext ==
    \/ \E ch \in AllowlistChars : ExtendValue(ch)
    \/ ParseAllowlist
    \/ ParseAgain

AllowlistSpec == AllowlistInit /\ [][AllowlistNext]_vars

----------------------------------------------------------------------------
(* Claims about allowlist parsing (checked under AllowlistSpec) *)

\* a trimmed, non-blank, comma-free piece of the text
IsTrimmedSegment(item, text) ==
    /\ item # ""
    /\ ~Contains(item, ",")
    /\ ~IsSpace(SubSeq(item, 1, 1))
    /\ ~IsSpace(SubSeq(item, Len(item), Len(item)))
    /\ Contains(text, item)

\* the text has a character that is neither a comma nor blank
HasNonBlank(text) ==
    \E i \in 1..Len(text) : SubSeq(text, i, i) # "," /\ ~IsSpace(SubSeq(text, i, i))

\* C16: parsing an allowlist never yields an empty-set restriction.  An
\* absent value, an empty set and a text with no non-blank comma-separated
\* segment give "unrestricted" (None); any other text gives the non-empty set
\* of its trimmed non-blank segments ("1, ," -> {"1"}; " 1,2" -> {"1","2"});
\* parsing the parsed value again returns it unchanged.
C16_ParseAllowlist ==
    fkind \in {"parsed", "reparsed"} =>
        /\ ~(~allowlist.isNone /\ allowlist.items = {})
        /\ allowlist.isNone => allowlist = NoneAllowlist
        /\ allowlist.isNone <=> (fin.t \in {"null", "set"} \/ ~HasNonBlank(fin.v))
        /\ ~allowlist.isNone =>
               /\ \A item \in allowlist.items : IsTrimmedSegment(item, fin.v)
               /\ allowlist.items = {Strip(item) : item \in SplitComma(fin.v, 1)} \ {""}
        /\ fin = JStr("1, ,") => allowlist = SetAllowlist({"1"})
        /\ fin = JStr(" 1,2") => allowlist = SetAllowlist({"1", "2"})
        /\ fin = JStr("12 ,") => allowlist = SetAllowlist({"12"})
        /\ fin = JStr(", ,") => allowlist = NoneAllowlist
        /\ fkind = "reparsed" => fout = allowlist

\* C16 witness: "1, ," was parsed to {"1"} (the blank segments dropped) and
\* parsing {"1"} again gave {"1"}.
C16_Witness ==
    /\ fkind = "reparsed"
    /\ fin = JStr("1, ,")
    /\ allowlist = SetAllowlist({"1"})
    /\ fout = SetAllowlist({"1"})

----------------------------------------------------------------------------
(* Claims about darcy_tracking_list and n8n_list_executions (checked under
   Spec) *)

\* the darcy_tracking_list calls that returned
TrackingListReturned ==
    {c \in Callers : calls[c].tool = "darcy_tracking_list" /\ calls[c].pc = "done"
                        /\ calls[c].outcome.kind = "result"}

\* the records the tracker held when the call read it, newest first
HeldWhenRead(c) == MostRecent(FirstAppends(calls[c].seen), max_entries)

\* C17 as claimed: darcy_tracking_list returns only for the empty argument
\* object, and its result is the list of every record held, most recent
\* first, each an object with the keys workflowId, executionId, payload and
\* startedAt.
C17_TrackingListCamelCase ==
    \A c \in TrackingListReturned :
        /\ calls[c].arguments = JDict(EmptyMap)
        /\ calls[c].outcome.text =
               format_json(JList([i \in 1..Len(HeldWhenRead(c)) |->
                   JDict([workflowId |-> JStr(HeldWhenRead(c)[i].workflow_id),
                          executionId |-> HeldWhenRead(c)[i].execution_id,
                          payload |-> HeldWhenRead(c)[i].payload,
                          startedAt |-> JStr(IsoFormat(HeldWhenRead(c)[i].started_at))])]))

\* C17 amended: the same, with each record an object with the keys
\* workflow_id, execution_id, payload and started_at (ISO-8601); a call with
\* any argument does not return a result.
C17_TrackingListSnakeCase ==
    /\ \A c \in Callers :
           (calls[c].tool = "darcy_tracking_list" /\ calls[c].pc = "done"
                /\ calls[c].arguments # JDict(EmptyMap))
               => calls[c].outcome.kind \notin {"result", "none"}
    /\ \A c \in TrackingListReturned :
           /\ calls[c].arguments = JDict(EmptyMap)
           /\ calls[c].requests = 0
           /\ calls[c].outcome.text =
                  format_json(JList([i \in 1..Len(HeldWhenRead(c)) |->
                      JDict([workflow_id |-> JStr(HeldWhenRead(c)[i].workflow_id),
                             execution_id |-> HeldWhenRead(c)[i].execution_id,
                             payload |-> HeldWhenRead(c)[i].payload,
                             started_at |-> JStr(IsoFormat(HeldWhenRead(c)[i].started_at))])]))
           /\ \A i \in 1..Len(HeldWhenRead(c)) :
                  /\ Contains(calls[c].outcome.text, "\"workflow_id\": ")
                  /\ Contains(calls[c].outcome.text, "\"started_at\": \"2024-01-01T")
                  /\ ~Contains(calls[c].outcome.text, "workflowId")

\* C17 witness: darcy_tracking_list returned the one record the tracker
\* holds, that of a run of workflow 1 which started execution exec-7.
C17_Witness ==
    \E c \in TrackingListReturned :
        /\ Len(calls[c].snapshot) = 1
        /\ calls[c].snapshot = entries
        /\ calls[c].snapshot[1].workflow_id = "1"
        /\ calls[c].snapshot[1].execution_id = JStr("exec-7")
        /\ Contains(calls[c].outcome.text, "\"execution_id\": \"exec-7\"")

\* the n8n_list_executions calls with valid arguments and no workflow_id
UnfilteredListings ==
    {c \in Callers : /\ calls[c].tool = "n8n_list_executions"
                     /\ calls[c].pc # "idle"
                     /\ ValidListExecutionsArgs(calls[c].arguments)
                     /\ ~Has(calls[c].arguments, "workflow_id")}

\* C18 as claimed: n8n_list_executions without a workflow_id is not denied
\* up front: it issues its remote request, and when the upstream answers it
\* completes with the response filtered down to the executions of allowlisted
\* workflows (a failed request ends in the translated ToolExecutionError).
C18_UnfilteredListingProceeds ==
    \A c \in UnfilteredListings :
        /\ calls[c].requests = 1
        /\ calls[c].pc = "done" =>
               \/ /\ calls[c].outcome.kind = "result"
                  /\ calls[c].outcome.text = format_json(filter_executions(calls[c].response))
               \/ /\ calls[c].outcome.kind = "ToolExecutionError"
                  /\ calls[c].raised.exc = "N8NClientError"

\* C19: validation comes first in every tool call: a call whose arguments fail
\* validation has ended with the validation error (not with an allowlist
\* denial), has issued no remote request and has constructed no tracker
\* record, and the step that runs it leaves the tracker as it was.
C19_ValidationFirst ==
    /\ [](\A c \in InvalidCalls :
              /\ calls[c].pc = "done"
              /\ calls[c].outcome.kind = "ValidationError"
              /\ calls[c].requests = 0
              /\ calls[c].record = JNull
              /\ calls[c].snapshot = <<>>)
    /\ [][\A c \in Callers :
              (calls'[c] # calls[c] /\ calls'[c].tool \in TOOL_NAMES
                   /\ ~ArgumentsValid(calls'[c]))
                  => (entries' = entries /\ added' = added /\ lock' = lock)]_vars

\* C19 witness: with the allowlist {1,2}, n8n_get_workflow for workflow 3 with
\* an unrecognized key failed validation (it was not denied), and a
\* n8n_run_workflow call without workflow_id failed too; the tracker holds
\* nothing.
C19_Witness ==
    \E c, d \in InvalidCalls :
        /\ allowlist = SetAllowlist({"1", "2"})
        /\ calls[c].tool = "n8n_get_workflow"
        /\ calls[c].arguments = JDict([workflow_id |-> JStr("3"), bogus |-> JInt(1)])
        /\ calls[c].outcome.kind = "ValidationError"
        /\ calls[d].tool = "n8n_run_workflow"
        /\ calls[d].requests = 0
        /\ entries = <<>>

----------------------------------------------------------------------------
(* ExtractSpec: a run-workflow response is put together field by field and
   handed to _extract_execution_id *)

\* the responses to start from: an object, an object with a nested data
\* object, an object whose data is not an object, and a body that is no object
ExtractSkeletons ==
    { JDict(EmptyMap), JDict([data |-> JDict(EmptyMap)]),
      JDict([data |-> JStr("ok")]), JList(<<>>) }

\* values a field may carry: null, strings, and a falsy number
IdValues == {JNull, JStr("a"), JStr("b"), JInt(0)}

SetTopField(key, value) ==
    /\ fkind = "none"
    /\ IsDict(fin)
    /\ ~Has(fin, key)
    /\ fin' = SetItem(fin, key, value)
    /\ UNCHANGED <<allowlist, entries, lock, clock, calls, started, added, fout, fkind>>

SetDataField(key, value) ==
    /\ fkind = "none"
    /\ IsDict(fin)
    /\ IsDict(Get(fin, "data"))
    /\ ~Has(Get(fin, "data"), key)
    /\ fin' = SetItem(fin, "data", SetItem(Get(fin, "data"), key, value))
    /\ UNCHANGED <<allowlist, entries, lock, clock, calls, started, added, fout, fkind>>

ApplyExtractExecutionId ==
    /\ fkind = "none"
    /\ fout' = extract_execution_id(fin)
    /\ fkind' = "execution_id"
    /\ UNCHANGED <<allowlist, entries, lock, clock, calls, started, added, fin>>

ExtractInit ==
    /\ allowlist = NoneAllowlist
    /\ TrackerInit
    /\ CallsInit
    /\ fin \in ExtractSkeletons
    /\ fout = JNull
    /\ fkind = "none"

ExtractNext ==
    \/ \E key \in {"executionId", "execution_id", "id"}, value \in IdValues :
           SetTopField(key, value)
    \/ \E key \in {"executionId", "id"}, value \in IdValues : SetDataField(key, value)
    \/ ApplyExtractExecutionId

ExtractSpec == ExtractInit /\ [][ExtractNext]_vars

----------------------------------------------------------------------------
(* Claims about identifier extraction (checked under ExtractSpec) *)

\* the value under a key of an object, null when the holder is no object or
\* has no such key
ValueAt(holder, key) ==
    IF holder.t = "dict" /\ key \in DOMAIN holder.v THEN holder.v[key] ELSE JNull

\* the places searched, in order
Candidates(payload) ==
    << ValueAt(payload, "executionId"), ValueAt(payload, "execution_id"),
       ValueAt(payload, "id"),
       ValueAt(ValueAt(payload, "data"), "executionId"),
       ValueAt(ValueAt(payload, "data"), "id") >>

\* C20: the execution identifier extracted from a run-workflow response is
\* the text of the first non-null value among top-level executionId,
\* execution_id, id, then data.executionId, data.id; it is absent (None) when
\* all of them are null or missing; a top-level id wins over data.executionId.
C20_FirstNonNullIdentifier ==
    fkind = "execution_id" =>
        LET found == {i \in 1..5 : Candidates(fin)[i] # JNull}
        IN  /\ found = {} => fout = JNull
            /\ found # {} =>
                   LET first == CHOOSE i \in found : \A k \in found : i <= k
                   IN  /\ fout.t = "str"
                       /\ fout.v = PyStr(Candidates(fin)[first])
            /\ fin = JDict([id |-> JStr("a"), data |-> JDict([executionId |-> JStr("b")])])
                   => fout = JStr("a")
            /\ fin = JDict([id |-> JInt(0), data |-> JDict([id |-> JStr("b")])])
                   => fout = JStr("0")
            /\ fin = JDict([executionId |-> JNull, data |-> JDict([id |-> JStr("b")])])
                   => fout = JStr("b")

\* C20 witness: the response {"id": "a", "data": {"executionId": "b"}} gave
\* the identifier "a".
C20_Witness ==
    /\ fkind = "execution_id"
    /\ fin = JDict([id |-> JStr("a"), data |-> JDict([executionId |-> JStr("b")])])
    /\ fout = JStr("a")

----------------------------------------------------------------------------
(* Claims about the remote client and retries (checked under Spec) *)

\* the upstream failed the request: no response, an error status, or a body
\* that is not JSON
FailedReply(reply) == reply.net \/ reply.status >= 400 \/ ~reply.json

\* the calls whose last request the upstream failed
FailedRequestCalls ==
    {c \in Callers : /\ calls[c].replies # <<>>
                     /\ FailedReply(calls[c].replies[Len(calls[c].replies)])}

\* C21 as claimed: every failed remote request leaves the client as
\* N8NClientError - status 0 for a network failure, the HTTP status otherwise -
\* whatever the body of the response; no other exception leaves the client.
C21_SingleErrorKind ==
    \A c \in Callers :
        /\ (~calls[c].raised.ok) => calls[c].raised.exc = "N8NClientError"
        /\ c \in FailedRequestCalls =>
               LET reply == calls[c].replies[Len(calls[c].replies)]
               IN  /\ calls[c].raised.exc = "N8NClientError"
                   /\ calls[c].raised.status_code = IF reply.net THEN 0 ELSE reply.status

\* the calls that must not reach the upstream: darcy_tracking_list, unknown
\* tools, invalid arguments, and calls denied up front by the allowlist
LocalCalls ==
    {c \in ToolCalls :
        \/ calls[c].tool = "darcy_tracking_list"
        \/ calls[c].tool \notin TOOL_NAMES
        \/ ~ArgumentsValid(calls[c])
        \/ calls[c].outcome =
               Raised("ToolExecutionError", "Workflow is not permitted by the allowlist")}

\* C22: no tool call retries.  A call issues at most one remote request and
\* receives at most one reply; darcy_tracking_list, unknown tools, invalid
\* arguments and up-front denials issue none; a call whose request failed has
\* ended at once with an error, without a result and without a tracker record.
C22_NoRetries ==
    \A c \in ToolCalls :
        /\ calls[c].requests <= 1
        /\ Len(calls[c].replies) <= calls[c].requests
        /\ c \in LocalCalls => calls[c].requests = 0
        /\ c \in FailedRequestCalls =>
               /\ calls[c].pc = "done"
               /\ calls[c].requests = 1
               /\ calls[c].outcome.kind \notin {"result", "none"}
               /\ calls[c].record = JNull

\* C22 witness: the network failed under one call, which ended in an error
\* after its single request, while another call was denied up front and sent
\* nothing.
C22_Witness ==
    \E c \in FailedRequestCalls, d \in LocalCalls :
        /\ calls[c].replies = <<NetworkFailure>>
        /\ calls[c].requests = 1
        /\ calls[c].outcome.kind = "ToolExecutionError"
        /\ calls[d].outcome =
               Raised("ToolExecutionError", "Workflow is not permitted by the allowlist")
        /\ calls[d].requests = 0

----------------------------------------------------------------------------
(* UnrestrictedSpec: the bridge started without an allowlist.  Either the
   callers run tool calls, or an upstream list response is put together and
   handed to a filter. *)

\* settings that leave the bridge unrestricted: N8N_WORKFLOW_ALLOWLIST absent,
\* an empty set, a text without a non-blank segment
UnrestrictedSettings == {JNull, PySet({}), JStr(""), JStr(" , ")}

\* the upstream starts a list response
ReceiveResponse(skeleton) ==
    /\ fin = JNull
    /\ fkind = "none"
    /\ fin' = skeleton
    /\ UNCHANGED <<allowlist, entries, lock, clock, calls, started, added, fout, fkind>>

UnrestrictedInit ==
    /\ allowlist \in {parse_allowlist(value) : value \in UnrestrictedSettings}
    /\ TrackerInit
    /\ CallsInit
    /\ HarnessInit

UnrestrictedNext ==
    \/ fin = JNull /\ fkind = "none" /\ Next
    \/ started = 0 /\ \E skeleton \in ResponseSkeletons : ReceiveResponse(skeleton)
    \/ started = 0 /\ fin # JNull /\ FilterNext

UnrestrictedSpec == UnrestrictedInit /\ [][UnrestrictedNext]_vars

----------------------------------------------------------------------------
(* Claims about the unrestricted bridge (checked under UnrestrictedSpec) *)

DenialMessages ==
    {"Workflow is not permitted by the allowlist",
     "Execution belongs to a workflow outside the allowlist"}

\* C23: without an allowlist (absent, or normalized from an empty set) no
\* tool call is denied on allowlist grounds - the calls that name a workflow
\* or an execution with valid arguments go on to their remote request - and
\* a list response comes out of the workflow filter and of the execution
\* filter exactly as it went in, count fields included.
C23_UnrestrictedPassThrough ==
    (allowlist.isNone \/ allowlist.items = {}) =>
        /\ \A c \in ToolCalls :
               /\ calls[c].outcome.text \notin DenialMessages
               /\ (calls[c].tool \in {"n8n_get_workflow", "n8n_run_workflow", "n8n_get_execution"}
                     /\ ArgumentsValid(calls[c]))
                      => calls[c].requests = 1
               /\ (calls[c].tool = "n8n_get_execution" /\ calls[c].pc = "done"
                     /\ calls[c].replies # <<>>
                     /\ ~FailedReply(calls[c].replies[1]))
                      => calls[c].outcome = as_mcp_text(format_json(calls[c].replies[1].body))
        /\ fkind \in {"workflows", "executions"} => fout = fin

\* C23 witness: without an allowlist the workflow filter returned
\* {data: [{id: "1"}, {id: "3"}], count: 2} as it was.
C23_Witness ==
    /\ allowlist = NoneAllowlist
    /\ fkind = "workflows"
    /\ fin = JDict([data |-> JList(<<JDict([id |-> JStr("1")]), JDict([id |-> JStr("3")])>>),
                    count |-> JInt(2)])
    /\ fout = fin

----------------------------------------------------------------------------
(* LiveSpec: the tool calls of Spec under the scheduling the code relies on.
   The event loop resumes every coroutine that can run (weak fairness of the
   steps inside the lock); httpx gives every request a reply, or fails it on
   timeout (weak fairness of RequestCompletes); asyncio.Lock wakes its waiters
   in FIFO order, so a waiter is not passed over forever (strong fairness of
   the two acquisitions). *)

Fairness ==
    \A c \in Callers :
        /\ WF_vars(\E reply \in Replies(calls[c].tool) : RequestCompletes(c, reply))
        /\ SF_vars(AddEntryAcquire(c))
        /\ SF_vars(ListEntriesAcquire(c))
        /\ WF_vars(AddEntryAppend(c))
        /\ WF_vars(ListEntriesCopy(c))

\* the bridge started with the allowlist {1,2}
LiveInit ==
    /\ allowlist = SetAllowlist({"1", "2"})
    /\ TrackerInit
    /\ CallsInit
    /\ HarnessInit

LiveSpec == LiveInit /\ [][Next]_vars /\ Fairness

----------------------------------------------------------------------------
(* Claims about termination (checked under LiveSpec) *)

\* the ways a call ends: a formatted result, a ToolExecutionError, or an
\* unexpected error
TerminalKinds ==
    {"result", "ToolExecutionError", "ValidationError", "TypeError", "AttributeError"}

\* C24: every tool call terminates: a call that has started (it waits for the
\* upstream, for the tracker lock, or holds the lock) eventually is done, also
\* beside another caller's calls; a call has no outcome before it is done and
\* exactly one terminal outcome once it is.
C24_CallsTerminate ==
    /\ \A c \in Callers :
           (calls[c].pc \notin {"idle", "done"}) ~> (calls[c].pc = "done")
    /\ [](\A c \in Callers :
              /\ calls[c].pc \notin {"idle", "done"} => calls[c].outcome = NoOutcome
              /\ calls[c].pc = "done" =>
                     /\ calls[c].outcome.kind \in TerminalKinds
                     /\ Len(calls[c].answers) = 1)

\* C24 witness: a darcy_tracking_list call waits for the tracker lock while
\* a run holds it to append its record.
C24_Witness ==
    \E c, d \in Callers :
        /\ calls[c].tool = "darcy_tracking_list"
        /\ calls[c].pc = "list_entries"
        /\ calls[d].tool = "n8n_run_workflow"
        /\ calls[d].pc = "add_locked"
        /\ lock = d

----------------------------------------------------------------------------
(* Claims about the tracker's contents under an allowlist (checked under
   Spec) *)

\* the workflow_ids of the records in a sequence
WorkflowIdsOf(records) == {records[i].workflow_id : i \in 1..Len(records)}

\* C25: with an allowlist configured, every record the tracker holds or has
\* ever held, every record constructed for it, and every record a
\* darcy_tracking_list call read, belongs to a workflow of the allowlist.
C25_TrackedWorkflowsAllowed ==
    (~allowlist.isNone /\ allowlist.items # {}) =>
        /\ WorkflowIdsOf(entries) \subseteq allowlist.items
        /\ WorkflowIdsOf(added) \subseteq allowlist.items
        /\ \A c \in Callers :
               /\ WorkflowIdsOf(calls[c].snapshot) \subseteq allowlist.items
               /\ calls[c].record # JNull => calls[c].record.workflow_id \in allowlist.items

\* C25 witness: under the allowlist {1,2} the tracker holds the record of a
\* run of workflow 1, and a run of workflow 3 was asked for and denied.
C25_Witness ==
    \E c \in Callers :
        /\ allowlist = SetAllowlist({"1", "2"})
        /\ Len(entries) = 1
        /\ entries[1].workflow_id = "1"
        /\ calls[c].tool = "n8n_run_workflow"
        /\ calls[c].arguments = JDict(WorkflowArg("3"))
        /\ calls[c].pc = "done"
        /\ calls[c].outcome.kind = "ToolExecutionError"

----------------------------------------------------------------------------
(* Claims about what a filtered list reveals (checked under FilterSpec) *)

\* the workflow an execution item belongs to as the spec words it: the first
\* of workflowId, workflow_id that is present
FirstPresentOwner(item) ==
    IF ~IsDict(item) THEN JNull
    ELSE IF Get(item, "workflowId") # JNull THEN Get(item, "workflowId")
    ELSE Get(item, "workflow_id")

\* the item is inside the allowlist, for the filter that ran
InsideAllowlist(item) ==
    IF fkind = "workflows" THEN KeptByFirstPresentId(item)
    ELSE /\ FirstPresentOwner(item) # JNull
         /\ PyStr(FirstPresentOwner(item)) \in allowlist.items

\* a response reduced to what the claim lets the result depend on: the items
\* outside the allowlist taken out of its filtered arrays, and its count
\* fields set to one fixed value
WithoutOutsideItems(payload) ==
    IF IsList(payload) THEN JList(SelectSeq(payload.v, InsideAllowlist))
    ELSE IF ~IsDict(payload) THEN payload
    ELSE JDict([k \in DOMAIN payload.v |->
                   IF k \in ArraysOf(payload)
                   THEN JList(SelectSeq(payload.v[k].v, InsideAllowlist))
                   ELSE IF k \in CountKeys THEN JInt(0)
                   ELSE payload.v[k]])

\* the filter that ran
FilterThatRan(payload) ==
    IF fkind = "workflows" THEN filter_workflows(payload) ELSE filter_executions(payload)

\* C26 as claimed: with an allowlist, the filtered result is the same for any
\* two responses that differ only in the items outside the allowlist in their
\* filtered arrays and in the values of their count, total and totalCount
\* fields: filtering a response gives what filtering it without those items
\* and with other count values gives.
C26_ResultIgnoresOutsideItems ==
    (fkind \in {"workflows", "executions"} /\ ~allowlist.isNone /\ allowlist.items # {})
        => fout = FilterThatRan(WithoutOutsideItems(fin))

====
